---------------------------- MODULE Spec2Model ----------------------------
(***************************************************************************)
(* Model of the power price simulator (src/src/power_simulator): the       *)
(* SimulationParameters / PricePoint / SimulationState dataclasses, the    *)
(* RegimeScheduler and the PriceSimulator engine.                          *)
(*                                                                         *)
(* Every Python float of the program is an IEEE-754 binary64 value and is  *)
(* modelled as such: the record [sign, exp, mant] stands for               *)
(* (-1)^sign * mant * 2^exp with 2^52 <= mant < 2^53, and every arithmetic *)
(* operation rounds its exact result to nearest, ties to even.  The        *)
(* mantissa does not fit the checker's integers, so it is kept as a        *)
(* little-endian sequence of base-2^15 limbs.                              *)
(***************************************************************************)
EXTENDS Integers, Sequences, FiniteSets, TLC

(***************************************************************************)
(* Natural numbers of arbitrary size: little-endian limb sequences without *)
(* leading zero limbs; <<>> is 0.                                          *)
(***************************************************************************)
LimbBits == 15

B == 2 ^ LimbBits

RECURSIVE BNorm(_)
BNorm(x) ==
    IF x = <<>> THEN <<>>
    ELSE IF x[Len(x)] = 0 THEN BNorm(SubSeq(x, 1, Len(x) - 1))
    ELSE x

RECURSIVE BFromInt(_)
BFromInt(n) == IF n = 0 THEN <<>> ELSE <<n % B>> \o BFromInt(n \div B)

RECURSIVE BAddC(_, _, _)
BAddC(x, y, c) ==
    IF x = <<>> /\ y = <<>> THEN (IF c = 0 THEN <<>> ELSE <<c>>)
    ELSE LET a == IF x = <<>> THEN 0 ELSE Head(x)
             b == IF y = <<>> THEN 0 ELSE Head(y)
             s == a + b + c
         IN  <<s % B>> \o BAddC(IF x = <<>> THEN <<>> ELSE Tail(x),
                                IF y = <<>> THEN <<>> ELSE Tail(y),
                                s \div B)

BAdd(x, y) == BAddC(x, y, 0)

\* x - y for x >= y, limb by limb with a borrow.
RECURSIVE BSubC(_, _, _)
BSubC(x, y, c) ==
    IF x = <<>> THEN <<>>
    ELSE LET b == IF y = <<>> THEN 0 ELSE Head(y)
             d == Head(x) - b - c
         IN  <<d % B>> \o BSubC(Tail(x),
                                IF y = <<>> THEN <<>> ELSE Tail(y),
                                IF d < 0 THEN 1 ELSE 0)

BSub(x, y) == BNorm(BSubC(x, y, 0))

\* -1, 0 or 1 as x < y, x = y, x > y.
RECURSIVE BCmpFrom(_, _, _)
BCmpFrom(x, y, i) ==
    IF i = 0 THEN 0
    ELSE IF x[i] < y[i] THEN -1
    ELSE IF x[i] > y[i] THEN 1
    ELSE BCmpFrom(x, y, i - 1)

BCmp(x, y) ==
    IF Len(x) < Len(y) THEN -1
    ELSE IF Len(x) > Len(y) THEN 1
    ELSE BCmpFrom(x, y, Len(x))

\* x * d + c for a single limb d.
RECURSIVE BMulSmall(_, _, _)
BMulSmall(x, d, c) ==
    IF x = <<>> THEN (IF c = 0 THEN <<>> ELSE <<c>>)
    ELSE LET p == Head(x) * d + c
         IN  <<p % B>> \o BMulSmall(Tail(x), d, p \div B)

RECURSIVE BMul(_, _)
BMul(x, y) ==
    IF x = <<>> \/ y = <<>> THEN <<>>
    ELSE BAdd(BMulSmall(x, Head(y), 0),
              LET r == BMul(x, Tail(y)) IN IF r = <<>> THEN <<>> ELSE <<0>> \o r)

\* Quotient and remainder of x by a single limb d, most significant limb first.
RECURSIVE BDivSmall(_, _)
BDivSmall(x, d) ==
    IF x = <<>> THEN [q |-> <<>>, r |-> 0]
    ELSE LET hi  == BDivSmall(Tail(x), d)
             cur == hi.r * B + Head(x)
         IN  [q |-> <<cur \div d>> \o hi.q, r |-> cur % d]

BShl(x, n) ==
    IF x = <<>> \/ n = 0 THEN x
    ELSE [i \in 1..(n \div LimbBits) |-> 0] \o BMulSmall(x, 2 ^ (n % LimbBits), 0)

\* TRUE iff one of the limbs x[1..k] is not 0.
RECURSIVE BAnyLow(_, _)
BAnyLow(x, k) == IF k = 0 THEN FALSE ELSE x[k] # 0 \/ BAnyLow(x, k - 1)

BShr(x, n) ==
    IF n \div LimbBits >= Len(x) THEN <<>>
    ELSE BNorm(BDivSmall(SubSeq(x, n \div LimbBits + 1, Len(x)),
                         2 ^ (n % LimbBits)).q)

RECURSIVE BitLen(_)
BitLen(n) == IF n = 0 THEN 0 ELSE 1 + BitLen(n \div 2)

BBitLen(x) ==
    IF x = <<>> THEN 0 ELSE LimbBits * (Len(x) - 1) + BitLen(x[Len(x)])

\* Number of trailing zero bits of x # 0.
RECURSIVE BTrailingZeros(_)
BTrailingZeros(x) ==
    IF Head(x) = 0 THEN LimbBits + BTrailingZeros(Tail(x))
    ELSE IF Head(x) % 2 = 1 THEN 0
    ELSE 1 + BTrailingZeros(<<Head(x) \div 2>>)

(***************************************************************************)
(* IEEE-754 binary64 values.  Subnormals, infinities and NaN are outside   *)
(* the magnitudes the engine works with (0 and 2^-60 .. 2^10).             *)
(***************************************************************************)
MantBits == 53

Zero == [sign |-> 0, exp |-> 0, mant |-> <<>>]

\* The binary64 value nearest to (-1)^sign * M * 2^e, ties to even.
FRound(sign, M, e) ==
    LET L == BBitLen(M) IN
    IF L = 0 THEN Zero
    ELSE IF L <= MantBits
    THEN [sign |-> sign, exp |-> e - (MantBits - L), mant |-> BShl(M, MantBits - L)]
    ELSE LET sh   == L - MantBits
             k    == sh \div LimbBits
             b    == sh % LimbBits
             qr   == BDivSmall(SubSeq(M, k + 1, Len(M)), 2 ^ b)
             q    == BNorm(qr.q)
             \* the discarded part M mod 2^sh against one half of 2^sh
             c    == IF b > 0
                     THEN (IF qr.r > 2 ^ (b - 1) THEN 1
                           ELSE IF qr.r < 2 ^ (b - 1) THEN -1
                           ELSE IF BAnyLow(M, k) THEN 1 ELSE 0)
                     ELSE (IF M[k] > B \div 2 THEN 1
                           ELSE IF M[k] < B \div 2 THEN -1
                           ELSE IF BAnyLow(M, k - 1) THEN 1 ELSE 0)
             up   == c = 1 \/ (c = 0 /\ Head(q) % 2 = 1)
             q2   == IF up THEN BAdd(q, <<1>>) ELSE q
         IN  IF BBitLen(q2) > MantBits
             THEN [sign |-> sign, exp |-> e + sh + 1, mant |-> BShr(q2, 1)]
             ELSE [sign |-> sign, exp |-> e + sh, mant |-> q2]

FromInt(n) == IF n < 0 THEN FRound(1, BFromInt(-n), 0) ELSE FRound(0, BFromInt(n), 0)

FNeg(a) == IF a = Zero THEN Zero ELSE [a EXCEPT !.sign = 1 - a.sign]

FAdd(a, b) ==
    IF a = Zero THEN b
    ELSE IF b = Zero THEN a
    ELSE LET e  == IF a.exp < b.exp THEN a.exp ELSE b.exp
             A  == BShl(a.mant, a.exp - e)
             Bm == BShl(b.mant, b.exp - e)
             c  == BCmp(A, Bm)
         IN  IF a.sign = b.sign THEN FRound(a.sign, BAdd(A, Bm), e)
             ELSE IF c = 0 THEN Zero
             ELSE IF c = 1 THEN FRound(a.sign, BSub(A, Bm), e)
             ELSE FRound(b.sign, BSub(Bm, A), e)

FSub(a, b) == FAdd(a, FNeg(b))

FMul(a, b) ==
    IF a = Zero \/ b = Zero THEN Zero
    ELSE FRound((a.sign + b.sign) % 2, BMul(a.mant, b.mant), a.exp + b.exp)

\* a / b for a divisor whose odd part fits one limb (an integer such as 60.0):
\* the quotient is carried to 64 extra bits plus a sticky bit, then rounded.
GuardBits == 64

FDiv(a, b) ==
    IF a = Zero THEN Zero
    ELSE LET tz == BTrailingZeros(b.mant)
             d  == BShr(b.mant, tz)[1]
             qr == BDivSmall(BShl(a.mant, GuardBits), d)
             M  == BAdd(BShl(BNorm(qr.q), 1), IF qr.r = 0 THEN <<>> ELSE <<1>>)
         IN  FRound((a.sign + b.sign) % 2, M, a.exp - b.exp - tz - GuardBits - 1)

\* The float written as the decimal literal n/d (d a power of ten).
Dec(n, d) == FDiv(FromInt(n), FromInt(d))

\* The integer square root of N, one bit at a time from bit i down: r holds
\* the bits already decided.
RECURSIVE BSqrtBits(_, _, _)
BSqrtBits(N, r, i) ==
    IF i < 0 THEN r
    ELSE LET c == BAdd(r, BShl(<<1>>, i))
         IN  IF BCmp(BMul(c, c), N) <= 0
             THEN BSqrtBits(N, c, i - 1)
             ELSE BSqrtBits(N, r, i - 1)

\* sqrt(a) for a > 0: the root of the mantissa scaled to an even exponent, to
\* 57 bits plus a sticky bit, then rounded.
FSqrt(a) ==
    LET s == IF (a.exp - 60) % 2 = 0 THEN 60 ELSE 61
        N == BShl(a.mant, s)
        r == BSqrtBits(N, <<>>, 57)
        M == BAdd(BShl(r, 1), IF BMul(r, r) = N THEN <<>> ELSE <<1>>)
    IN  FRound(0, M, (a.exp - s) \div 2 - 1)

MagCmp(a, b) ==
    IF a = Zero THEN (IF b = Zero THEN 0 ELSE -1)
    ELSE IF b = Zero THEN 1
    ELSE IF a.exp < b.exp THEN -1
    ELSE IF a.exp > b.exp THEN 1
    ELSE BCmp(a.mant, b.mant)

FCmp(a, b) ==
    IF a.sign # b.sign THEN (IF a.sign = 1 THEN -1 ELSE 1)
    ELSE IF a.sign = 0 THEN MagCmp(a, b)
    ELSE MagCmp(b, a)

FLt(a, b) == FCmp(a, b) = -1

FLe(a, b) == FCmp(a, b) <= 0

FGt(a, b) == FCmp(a, b) = 1

FGe(a, b) == FCmp(a, b) >= 0


(***************************************************************************)
(* models.py                                                               *)
(***************************************************************************)
VolatilityRegime == {"LOW", "MEDIUM", "HIGH"}

\* Python's two-argument min and max: the second argument wins only when it
\* is strictly smaller (larger).
PyMin(a, b) == IF FLt(b, a) THEN b ELSE a

PyMax(a, b) == IF FGt(b, a) THEN b ELSE a

\* SimulationParameters(...) followed by __post_init__.
MaxVolatilityRange == <<Zero, FromInt(50)>>

MeanReversionRange == <<Dec(1, 100), Dec(5, 10)>>

JumpFrequencyRange == <<Zero, FromInt(5)>>

\* Mutant of SimulationParameters: jump_frequency clamped with the range of
\* max_volatility.
SimulationParametersSharedRange(max_volatility, mean_reversion_strength, jump_frequency) ==
    [max_volatility |->
         PyMax(MaxVolatilityRange[1], PyMin(MaxVolatilityRange[2], max_volatility)),
     mean_reversion_strength |->
         PyMax(MeanReversionRange[1],
               PyMin(MeanReversionRange[2], mean_reversion_strength)),
     jump_frequency |->
         PyMax(MaxVolatilityRange[1], PyMin(MaxVolatilityRange[2], jump_frequency))]

SimulationParameters(max_volatility, mean_reversion_strength, jump_frequency) ==
    [max_volatility |->
         PyMax(MaxVolatilityRange[1], PyMin(MaxVolatilityRange[2], max_volatility)),
     mean_reversion_strength |->
         PyMax(MeanReversionRange[1],
               PyMin(MeanReversionRange[2], mean_reversion_strength)),
     jump_frequency |->
         PyMax(JumpFrequencyRange[1], PyMin(JumpFrequencyRange[2], jump_frequency))]

\* Mutant of PricePoint: the long-term mean is recorded as the price.
PricePointAtMean(timestamp, price, regime, jump_occurred) ==
    [timestamp |-> timestamp, price |-> FromInt(100), regime |-> regime,
     jump_occurred |-> jump_occurred]

PricePoint(timestamp, price, regime, jump_occurred) ==
    [timestamp |-> timestamp, price |-> price, regime |-> regime,
     jump_occurred |-> jump_occurred]

\* Mutant of SimulationState: another default regime.
SimulationStateLowRegime(current_price) ==
    [current_price |-> current_price,
     elapsed_time |-> Zero,
     regime |-> "LOW",
     regime_switch_time |-> Zero,
     price_history |-> <<>>]

\* SimulationState(current_price=...) with the dataclass defaults.
SimulationState(current_price) ==
    [current_price |-> current_price,
     elapsed_time |-> Zero,
     regime |-> "MEDIUM",
     regime_switch_time |-> Zero,
     price_history |-> <<>>]

(***************************************************************************)
(* regimes.py                                                              *)
(***************************************************************************)
REGIME_CONFIGS ==
    [r \in VolatilityRegime |->
        CASE r = "LOW" ->
               [volatility_multiplier |-> Dec(5, 10),
                jump_probability_multiplier |-> FromInt(1)]
          [] r = "MEDIUM" ->
               [volatility_multiplier |-> FromInt(1),
                jump_probability_multiplier |-> Dec(15, 10)]
          [] r = "HIGH" ->
               [volatility_multiplier |-> Dec(15, 10),
                jump_probability_multiplier |-> FromInt(2)]]

REGIME_SWITCH_INTERVAL == FromInt(30)

\* RegimeScheduler() whose constructor drew the regime r.
RegimeScheduler(r) == [current_regime |-> r, last_switch_time |-> Zero]

\* Mutant of SwitchDue: the time of the last switch is not subtracted.
SwitchDueSinceStart(sched, elapsed_time) ==
    FGe(elapsed_time, REGIME_SWITCH_INTERVAL)

\* The test of RegimeScheduler.update.
SwitchDue(sched, elapsed_time) ==
    FGe(FSub(elapsed_time, sched.last_switch_time), REGIME_SWITCH_INTERVAL)

\* RegimeScheduler.update(elapsed_time) when _select_random_regime returns r:
\* the scheduler after the call (the call returns its current_regime).
SchedulerUpdate(sched, elapsed_time, r) ==
    IF SwitchDue(sched, elapsed_time)
    THEN [current_regime |-> r, last_switch_time |-> elapsed_time]
    ELSE sched

(***************************************************************************)
(* engine.py                                                               *)
(***************************************************************************)
\* Mutant of LONG_TERM_MEAN: the middle of the price range.
MiddleOfPriceRange == FromInt(150)

LONG_TERM_MEAN == FromInt(100)

PRICE_MIN == FromInt(1)

PRICE_MAX == FromInt(300)

\* Mutant of TIME_STEP: another step width.
TimeStepQuarter == Dec(25, 100)

TIME_STEP == Dec(2, 10)

TOTAL_DURATION == FromInt(180)

\* Mutant of Clip: the upper bound is not applied.
ClipBelowOnly(x, lo, hi) == PyMax(x, lo)

\* np.clip(x, lo, hi)
Clip(x, lo, hi) == PyMin(PyMax(x, lo), hi)

(***************************************************************************)
(* The random source.  A record rng gives the values the draws of a run    *)
(* range over: rng.regimes for np.random.randint indexing the regime list, *)
(* rng.normals for the standard normal variate that np.random.normal       *)
(* scales by its deviation, and rng.uniforms for np.random.random(), which *)
(* returns a float in [0, 1).                                              *)
(***************************************************************************)
\* _select_random_regime(): regimes[np.random.randint(0, len(regimes))]
SelectRandomRegime(rng) == rng.regimes

\* Mutant of RandomNormal: the deviation is ignored.
RandomNormalUnscaled(rng, std_dev) == rng.normals

\* np.random.normal(0, std_dev): loc + scale * z for a standard normal draw z.
RandomNormal(rng, std_dev) == {FAdd(Zero, FMul(std_dev, z)) : z \in rng.normals}

\* np.sqrt(TIME_STEP)
SqrtTimeStep == FSqrt(TIME_STEP)

\* A dt other than TIME_STEP that generate_next_price(dt) is called with.
LongStep == FromInt(6)

\* np.sqrt(LongStep)
SqrtLongStep == FSqrt(LongStep)

\* np.sqrt(dt); the roots of the two steps in use are computed once.
Sqrt(dt) ==
    CASE dt = TIME_STEP -> SqrtTimeStep
      [] dt = LongStep -> SqrtLongStep
      [] OTHER -> FSqrt(dt)

\* _sample_normal_noise(volatility, dt)
SampleNormalNoise(rng, volatility, dt) ==
    RandomNormal(rng, FMul(volatility, Sqrt(dt)))

\* Mutant of StepInMinutes: the step in seconds.
StepInSeconds == TIME_STEP

\* TIME_STEP / 60.0
StepInMinutes == FDiv(TIME_STEP, FromInt(60))

\* jump_prob of _sample_jump and of run_step (both use TIME_STEP).
JumpProb(params, regime) ==
    FMul(FMul(params.jump_frequency,
              REGIME_CONFIGS[regime].jump_probability_multiplier),
         StepInMinutes)

\* Mutant of JumpDraws: <= for <.
JumpDrawsInclusive(rng, jump_prob) == {FLe(u, jump_prob) : u \in rng.uniforms}

\* np.random.random() < jump_prob: the outcomes the comparison can have.
JumpDraws(rng, jump_prob) == {FLt(u, jump_prob) : u \in rng.uniforms}

Half == Dec(5, 10)

\* _sample_jump(volatility): the pairs (jump_occurred, jump_magnitude) it can
\* return in regime `regime`.
SampleJump(rng, params, regime, volatility) ==
    UNION {IF jump_occurred
           THEN {<<TRUE, j>> : j \in RandomNormal(rng, FMul(Half, volatility))}
           ELSE {<<FALSE, Zero>>} :
           jump_occurred \in JumpDraws(rng, JumpProb(params, regime))}

EffectiveVolatility(params, regime) ==
    FMul(params.max_volatility, REGIME_CONFIGS[regime].volatility_multiplier)

\* generate_next_price(dt) for the draws volatility_shock and jump_magnitude.
NextPrice(params, st, dt, volatility_shock, jump_magnitude) ==
    LET mean_reversion ==
            FMul(FMul(FSub(LONG_TERM_MEAN, st.current_price),
                      params.mean_reversion_strength), dt)
        new_price ==
            FAdd(FAdd(FAdd(st.current_price, mean_reversion), volatility_shock),
                 jump_magnitude)
    IN  Clip(new_price, PRICE_MIN, PRICE_MAX)

\* The values generate_next_price(dt) can return in state st.
GenerateNextPrice(rng, params, st, dt) ==
    UNION {{NextPrice(params, st, dt, shock, jump[2]) :
               shock \in SampleNormalNoise(rng, effective_volatility, dt),
               jump \in SampleJump(rng, params, st.regime, effective_volatility)} :
           effective_volatility \in {EffectiveVolatility(params, st.regime)}}

(***************************************************************************)
(* The engine as a state machine.                                          *)
(***************************************************************************)
VARIABLES
    ctor_args,          \* the arguments the parameters were constructed from
    parameters,         \* PriceSimulator.parameters
    state,              \* PriceSimulator.state
    regime_scheduler,   \* PriceSimulator.regime_scheduler
    last_call,          \* the last engine call: the operation, the elapsed_time
                        \* it found, whether it raised, and what it returned
    is_running,         \* st.session_state.is_running of the Streamlit app
    disabled,           \* whether the app rendered its sliders disabled
    in_progress         \* the run_step() that a thread is in the middle of:
                        \* the statement it is at and its local variables

vars == <<ctor_args, parameters, state, regime_scheduler, last_call,
          is_running, disabled, in_progress>>

\* No run_step() is under way.
Idle ==
    [pc |-> "idle", called_at |-> Zero, jump_occurred |-> FALSE,
     price_point |-> <<>>]

Call(op, at, raised, value) ==
    [op |-> op, at |-> at, raised |-> raised, value |-> value]

\* PriceSimulator(SimulationParameters(max_volatility, mean_reversion_strength,
\* jump_frequency))
Construct(rng, max_volatility, mean_reversion_strength, jump_frequency) ==
    /\ ctor_args' = <<max_volatility, mean_reversion_strength, jump_frequency>>
    /\ parameters' = SimulationParameters(max_volatility,
                                          mean_reversion_strength,
                                          jump_frequency)
    /\ state' = SimulationState(LONG_TERM_MEAN)
    /\ \E r \in SelectRandomRegime(rng) : regime_scheduler' = RegimeScheduler(r)
    /\ last_call' = Call("init", Zero, FALSE, <<>>)

\* The state a constructor call with these arguments leaves.
Constructed(rng, max_volatility, mean_reversion_strength, jump_frequency) ==
    /\ ctor_args = <<max_volatility, mean_reversion_strength, jump_frequency>>
    /\ parameters = SimulationParameters(max_volatility,
                                         mean_reversion_strength,
                                         jump_frequency)
    /\ state = SimulationState(LONG_TERM_MEAN)
    /\ \E r \in SelectRandomRegime(rng) : regime_scheduler = RegimeScheduler(r)
    /\ last_call = Call("init", Zero, FALSE, <<>>)

\* Mutant of Reset: the regime scheduler is kept.
ResetKeepsScheduler(rng) ==
    /\ state' = SimulationState(LONG_TERM_MEAN)
    /\ last_call' = Call("reset", state.elapsed_time, FALSE, <<>>)
    /\ UNCHANGED <<ctor_args, parameters, regime_scheduler>>

\* Mutant of Reset: the price history survives.
ResetKeepsHistory(rng) ==
    /\ state' = [SimulationState(LONG_TERM_MEAN) EXCEPT
                     !.price_history = state.price_history]
    /\ \E r \in SelectRandomRegime(rng) : regime_scheduler' = RegimeScheduler(r)
    /\ last_call' = Call("reset", state.elapsed_time, FALSE, <<>>)
    /\ UNCHANGED <<ctor_args, parameters>>

\* reset()
Reset(rng) ==
    /\ state' = SimulationState(LONG_TERM_MEAN)
    /\ \E r \in SelectRandomRegime(rng) : regime_scheduler' = RegimeScheduler(r)
    /\ last_call' = Call("reset", state.elapsed_time, FALSE, <<>>)
    /\ UNCHANGED <<ctor_args, parameters>>

\* Mutant of Completed: the run is twice as long.
CompletedAtTwiceTheDuration(st) ==
    FGt(st.elapsed_time, FAdd(TOTAL_DURATION, TOTAL_DURATION))

\* Mutant of Completed: the run ends one step later.
CompletedOneStepLater(st) ==
    FGt(st.elapsed_time, FAdd(TOTAL_DURATION, TIME_STEP))

\* The guard of run_step(): the simulation has already completed.
Completed(st) == FGt(st.elapsed_time, TOTAL_DURATION)

\* Mutant of RunStepRaise: the rejected call rewinds the clock.
RunStepRaiseRewinds ==
    /\ Completed(state)
    /\ state' = [state EXCEPT !.elapsed_time = Zero]
    /\ last_call' = Call("run_step", state.elapsed_time, TRUE, <<>>)
    /\ UNCHANGED <<ctor_args, parameters, regime_scheduler>>

\* run_step() that raises RuntimeError.
RunStepRaise ==
    /\ Completed(state)
    /\ last_call' = Call("run_step", state.elapsed_time, TRUE, <<>>)
    /\ UNCHANGED <<ctor_args, parameters, state, regime_scheduler>>

\* Mutant of RunStep: the flag is drawn with a probability of its own.
RunStepFlagFixedRate(rng) ==
    /\ ~Completed(state)
    /\ \E elapsed_time \in {FAdd(state.elapsed_time, TIME_STEP)} :
       \E r \in IF SwitchDue(regime_scheduler, elapsed_time)
                THEN SelectRandomRegime(rng)
                ELSE {regime_scheduler.current_regime} :
       \E sched \in {SchedulerUpdate(regime_scheduler, elapsed_time, r)} :
       \E st1 \in {[state EXCEPT !.elapsed_time = elapsed_time,
                                 !.regime = sched.current_regime]} :
       \E price \in GenerateNextPrice(rng, parameters, st1, TIME_STEP),
          jump_occurred \in JumpDraws(rng, Dec(1, 100)) :
       \E price_point \in {PricePoint(elapsed_time, price, st1.regime,
                                      jump_occurred)} :
           /\ state' = [st1 EXCEPT !.current_price = price,
                                   !.price_history = Append(@, price_point)]
           /\ regime_scheduler' = sched
           /\ last_call' = Call("run_step", state.elapsed_time, FALSE,
                                <<price_point>>)
    /\ UNCHANGED <<ctor_args, parameters>>

\* Mutant of RunStep: the scheduler's regime is not copied into the state.
RunStepKeepsStateRegime(rng) ==
    /\ ~Completed(state)
    /\ \E elapsed_time \in {FAdd(state.elapsed_time, TIME_STEP)} :
       \E r \in IF SwitchDue(regime_scheduler, elapsed_time)
                THEN SelectRandomRegime(rng)
                ELSE {regime_scheduler.current_regime} :
       \E sched \in {SchedulerUpdate(regime_scheduler, elapsed_time, r)} :
       \E st1 \in {[state EXCEPT !.elapsed_time = elapsed_time]} :
       \E price \in GenerateNextPrice(rng, parameters, st1, TIME_STEP),
          jump_occurred \in JumpDraws(rng, JumpProb(parameters, st1.regime)) :
       \E price_point \in {PricePoint(elapsed_time, price, st1.regime,
                                      jump_occurred)} :
           /\ state' = [st1 EXCEPT !.current_price = price,
                                   !.price_history = Append(@, price_point)]
           /\ regime_scheduler' = sched
           /\ last_call' = Call("run_step", state.elapsed_time, FALSE,
                                <<price_point>>)
    /\ UNCHANGED <<ctor_args, parameters>>

\* Mutant of RunStep: the price is computed before the regime is updated.
RunStepPriceBeforeUpdate(rng) ==
    /\ ~Completed(state)
    /\ \E elapsed_time \in {FAdd(state.elapsed_time, TIME_STEP)} :
       \E r \in IF SwitchDue(regime_scheduler, elapsed_time)
                THEN SelectRandomRegime(rng)
                ELSE {regime_scheduler.current_regime} :
       \E sched \in {SchedulerUpdate(regime_scheduler, elapsed_time, r)} :
       \E st1 \in {[state EXCEPT !.elapsed_time = elapsed_time,
                                 !.regime = sched.current_regime]} :
       \E price \in GenerateNextPrice(rng, parameters, state, TIME_STEP),
          jump_occurred \in JumpDraws(rng, JumpProb(parameters, st1.regime)) :
       \E price_point \in {PricePoint(elapsed_time, price, st1.regime,
                                      jump_occurred)} :
           /\ state' = [st1 EXCEPT !.current_price = price,
                                   !.price_history = Append(@, price_point)]
           /\ regime_scheduler' = sched
           /\ last_call' = Call("run_step", state.elapsed_time, FALSE,
                                <<price_point>>)
    /\ UNCHANGED <<ctor_args, parameters>>

\* run_step() that returns a PricePoint.  Each intermediate value of the
\* method body is computed once and bound to its name.
RunStep(rng) ==
    /\ ~Completed(state)
    /\ \E elapsed_time \in {FAdd(state.elapsed_time, TIME_STEP)} :
       \E r \in IF SwitchDue(regime_scheduler, elapsed_time)
                THEN SelectRandomRegime(rng)
                ELSE {regime_scheduler.current_regime} :
       \E sched \in {SchedulerUpdate(regime_scheduler, elapsed_time, r)} :
       \E st1 \in {[state EXCEPT !.elapsed_time = elapsed_time,
                                 !.regime = sched.current_regime]} :
       \E price \in GenerateNextPrice(rng, parameters, st1, TIME_STEP),
          jump_occurred \in JumpDraws(rng, JumpProb(parameters, st1.regime)) :
       \E price_point \in {PricePoint(elapsed_time, price, st1.regime,
                                      jump_occurred)} :
           /\ state' = [st1 EXCEPT !.current_price = price,
                                   !.price_history = Append(@, price_point)]
           /\ regime_scheduler' = sched
           /\ last_call' = Call("run_step", state.elapsed_time, FALSE,
                                <<price_point>>)
    /\ UNCHANGED <<ctor_args, parameters>>

\* Mutant of GenerateNextPriceCall: the call advances the clock, as run_step()
\* does.
GenerateNextPriceCallAdvances(rng, dt) ==
    /\ \E price \in GenerateNextPrice(rng, parameters, state, dt) :
           last_call' = Call("generate_next_price", state.elapsed_time, FALSE,
                             <<price>>)
    /\ state' = [state EXCEPT !.elapsed_time = FAdd(@, dt)]
    /\ UNCHANGED <<ctor_args, parameters, regime_scheduler>>

\* generate_next_price(dt): the engine is read, nothing is assigned.
GenerateNextPriceCall(rng, dt) ==
    /\ \E price \in GenerateNextPrice(rng, parameters, state, dt) :
           last_call' = Call("generate_next_price", state.elapsed_time, FALSE,
                             <<price>>)
    /\ UNCHANGED <<ctor_args, parameters, state, regime_scheduler>>

\* Mutant of GetCurrentState: the call synchronises the state's regime with
\* the scheduler.
GetCurrentStateSyncsRegime ==
    /\ state' = [state EXCEPT !.regime = regime_scheduler.current_regime]
    /\ last_call' = Call("get_current_state", state.elapsed_time, FALSE, <<>>)
    /\ UNCHANGED <<ctor_args, parameters, regime_scheduler>>

\* get_current_state(): returns self.state, the engine's own object.
GetCurrentState ==
    /\ last_call' = Call("get_current_state", state.elapsed_time, FALSE, <<>>)
    /\ UNCHANGED <<ctor_args, parameters, state, regime_scheduler>>

\* A caller assigns current_price of the SimulationState that
\* get_current_state() returned (or of sim.state, the same object): the
\* engine's state is that object.
CallerSetsPrice(price) ==
    /\ state' = [state EXCEPT !.current_price = price]
    /\ last_call' = Call("state_write", state.elapsed_time, FALSE, <<>>)
    /\ UNCHANGED <<ctor_args, parameters, regime_scheduler>>

\* A caller appends to price_history of the SimulationState that
\* get_current_state() returned: the list is the engine's own.
CallerAppendsPoint(price_point) ==
    /\ state' = [state EXCEPT !.price_history = Append(@, price_point)]
    /\ last_call' = Call("state_write", state.elapsed_time, FALSE, <<>>)
    /\ UNCHANGED <<ctor_args, parameters, regime_scheduler>>

\* An engine operation called directly (a test, a script): the app's session
\* state is not involved.
Direct(Operation) ==
    Operation /\ UNCHANGED <<is_running, disabled, in_progress>>

(***************************************************************************)
(* run_step() statement by statement, for a caller that does not keep      *)
(* other calls on the engine out while its run_step() is under way.  Each  *)
(* action is one statement of the method body; self.state and              *)
(* self.regime_scheduler are looked up anew by every statement, the        *)
(* method's local variables are kept in in_progress.                       *)
(***************************************************************************)

\* if self.state.elapsed_time > self.TOTAL_DURATION: not so, the call goes on.
RunStepEnter ==
    /\ in_progress.pc = "idle"
    /\ ~Completed(state)
    /\ in_progress' = [Idle EXCEPT !.pc = "advance_time",
                                   !.called_at = state.elapsed_time]
    /\ UNCHANGED <<ctor_args, parameters, state, regime_scheduler, last_call>>

\* self.state.elapsed_time += self.TIME_STEP
RunStepAdvanceTime ==
    /\ in_progress.pc = "advance_time"
    /\ state' = [state EXCEPT !.elapsed_time = FAdd(@, TIME_STEP)]
    /\ in_progress' = [in_progress EXCEPT !.pc = "update_regime"]
    /\ UNCHANGED <<ctor_args, parameters, regime_scheduler, last_call>>

\* self.state.regime = self.regime_scheduler.update(self.state.elapsed_time)
RunStepUpdateRegime(rng) ==
    /\ in_progress.pc = "update_regime"
    /\ \E r \in IF SwitchDue(regime_scheduler, state.elapsed_time)
                THEN SelectRandomRegime(rng)
                ELSE {regime_scheduler.current_regime} :
       \E sched \in {SchedulerUpdate(regime_scheduler, state.elapsed_time, r)} :
           /\ state' = [state EXCEPT !.regime = sched.current_regime]
           /\ regime_scheduler' = sched
    /\ in_progress' = [in_progress EXCEPT !.pc = "generate_price"]
    /\ UNCHANGED <<ctor_args, parameters, last_call>>

\* self.state.current_price = self.generate_next_price(self.TIME_STEP)
RunStepGeneratePrice(rng) ==
    /\ in_progress.pc = "generate_price"
    /\ \E price \in GenerateNextPrice(rng, parameters, state, TIME_STEP) :
           state' = [state EXCEPT !.current_price = price]
    /\ in_progress' = [in_progress EXCEPT !.pc = "draw_flag"]
    /\ UNCHANGED <<ctor_args, parameters, regime_scheduler, last_call>>

\* jump_occurred = np.random.random() < jump_prob
RunStepDrawFlag(rng) ==
    /\ in_progress.pc = "draw_flag"
    /\ \E jump_occurred \in JumpDraws(rng, JumpProb(parameters, state.regime)) :
           in_progress' = [in_progress EXCEPT !.pc = "create_point",
                                              !.jump_occurred = jump_occurred]
    /\ UNCHANGED <<ctor_args, parameters, state, regime_scheduler, last_call>>

\* price_point = PricePoint(timestamp=self.state.elapsed_time, ...)
RunStepCreatePoint ==
    /\ in_progress.pc = "create_point"
    /\ in_progress' =
           [in_progress EXCEPT
                !.pc = "append",
                !.price_point = <<PricePoint(state.elapsed_time,
                                             state.current_price,
                                             state.regime,
                                             in_progress.jump_occurred)>>]
    /\ UNCHANGED <<ctor_args, parameters, state, regime_scheduler, last_call>>

\* self.state.price_history.append(price_point); return price_point
RunStepAppend ==
    /\ in_progress.pc = "append"
    /\ state' = [state EXCEPT
                     !.price_history = Append(@, in_progress.price_point[1])]
    /\ last_call' = Call("run_step", in_progress.called_at, FALSE,
                         in_progress.price_point)
    /\ in_progress' = Idle
    /\ UNCHANGED <<ctor_args, parameters, regime_scheduler>>

\* The statement that the run_step() under way is at.
RunStepStatement(rng) ==
    \/ RunStepEnter
    \/ RunStepAdvanceTime
    \/ RunStepUpdateRegime(rng)
    \/ RunStepGeneratePrice(rng)
    \/ RunStepDrawFlag(rng)
    \/ RunStepCreatePoint
    \/ RunStepAppend

\* An engine operation called as a whole by another thread, or with no
\* run_step() under way.
Whole(Operation) == Operation /\ UNCHANGED <<is_running, disabled, in_progress>>

(***************************************************************************)
(* The Streamlit app.  Each action is one run of the script main(): the    *)
(* sliders are rendered disabled when is_running holds at that moment, the *)
(* parameters are compared, the clicked button is handled, and the         *)
(* simulation loop at the end of the script steps the engine when          *)
(* is_running holds by then.  last_call is the call of the script run that *)
(* acted on the engine; the get_current_state() calls for the display      *)
(* leave the engine as it is.                                              *)
(***************************************************************************)

\* The simulation loop with is_running set: one run_step() and a rerun while
\* elapsed_time < 180.0, else the run is over.
UISimulationLoop(rng) ==
    IF FLt(state.elapsed_time, FromInt(180))
    THEN RunStep(rng) /\ is_running' = TRUE
    ELSE /\ is_running' = FALSE
         /\ last_call' = Call("get_current_state", state.elapsed_time, FALSE, <<>>)
         /\ UNCHANGED <<ctor_args, parameters, state, regime_scheduler>>

\* Mutant of UISliders: the new values are written into the engine in use.
UISlidersInPlace(rng, max_volatility, mean_reversion, jump_frequency) ==
    /\ ~disabled
    /\ SimulationParameters(max_volatility, mean_reversion, jump_frequency) # parameters
    /\ ctor_args' = <<max_volatility, mean_reversion, jump_frequency>>
    /\ parameters' = SimulationParameters(max_volatility, mean_reversion, jump_frequency)
    /\ last_call' = Call("get_current_state", state.elapsed_time, FALSE, <<>>)
    /\ UNCHANGED <<state, regime_scheduler, is_running>>
    /\ disabled' = is_running
    /\ UNCHANGED in_progress

\* The script run after a slider was moved to values that differ from the
\* engine's parameters: the engine is replaced by a new one and the run stops.
UISliders(rng, max_volatility, mean_reversion, jump_frequency) ==
    /\ ~disabled
    /\ SimulationParameters(max_volatility, mean_reversion, jump_frequency) # parameters
    /\ Construct(rng, max_volatility, mean_reversion, jump_frequency)
    /\ is_running' = FALSE
    /\ disabled' = is_running
    /\ UNCHANGED in_progress

\* The script run after a click on Start (start_clicked), or the one that
\* st.rerun() started while is_running: both reach the simulation loop with
\* is_running set.
UIRun(rng, start_clicked) ==
    /\ start_clicked \/ is_running
    /\ UISimulationLoop(rng)
    /\ disabled' = is_running
    /\ UNCHANGED in_progress

\* The script run after a click on Pause.
UIPause ==
    /\ is_running' = FALSE
    /\ last_call' = Call("get_current_state", state.elapsed_time, FALSE, <<>>)
    /\ UNCHANGED <<ctor_args, parameters, state, regime_scheduler>>
    /\ disabled' = is_running
    /\ UNCHANGED in_progress

\* The script run after a click on Reset.
UIReset(rng) ==
    /\ Reset(rng)
    /\ is_running' = FALSE
    /\ disabled' = is_running
    /\ UNCHANGED in_progress


(***************************************************************************)
(* Spec: whole runs.  The engine is constructed with max_volatility 0 and  *)
(* jump_frequency 0, so that the regime draws are the only draws with more *)
(* than one outcome, and the regime draws range over two of the three      *)
(* regimes; the engine is then stepped and reset without restriction, up   *)
(* to and beyond the end of the run.                                       *)
(***************************************************************************)
RunRandom ==
    [regimes  |-> {"LOW", "HIGH"},
     normals  |-> {FromInt(-3), FromInt(3)},
     uniforms |-> {Zero, Half}]

Init == Constructed(RunRandom, FromInt(-5), Dec(5, 100), Zero) /\ is_running = FALSE /\ disabled = FALSE /\ in_progress = Idle

Next ==
    \/ Direct(RunStep(RunRandom))
    \/ Direct(RunStepRaise)
    \/ Direct(Reset(RunRandom))

Spec == Init /\ [][Next]_vars

(***************************************************************************)
(* SpecLive: the runs of Spec without reset(), under a caller that keeps   *)
(* calling run_step() for as long as the call returns a point.  Every      *)
(* regime draw gives MEDIUM.                                               *)
(*                                                                         *)
(* The caller's persistence is weak fairness of the accepted call,         *)
(* WF_vars(Direct(RunStep(LiveRandom))), written out: run_step() returns a *)
(* point exactly when the run is not Completed, so the call is either      *)
(* refused again and again or taken again and again.                       *)
(***************************************************************************)
LiveRandom ==
    [regimes  |-> {"MEDIUM"},
     normals  |-> {FromInt(-3), FromInt(3)},
     uniforms |-> {Zero, Half}]

InitLive ==
    /\ Constructed(LiveRandom, FromInt(-5), Dec(5, 100), Zero)
    /\ is_running = FALSE /\ disabled = FALSE
    /\ in_progress = Idle

NextLive ==
    \/ Direct(RunStep(LiveRandom))
    \/ Direct(RunStepRaise)

CallerKeepsStepping ==
    \/ []<>Completed(state)
    \/ []<><<Direct(RunStep(LiveRandom))>>_vars

SpecLive == InitLive /\ [][NextLive]_vars /\ CallerKeepsStepping

(***************************************************************************)
(* SpecStoch: the first MaxSteps steps of runs in which every draw is      *)
(* open: all three regimes, normal variates three deviations either side   *)
(* of the mean, and uniform draws below, between and above the jump        *)
(* probabilities.                                                          *)
(***************************************************************************)
MaxSteps == 3

StochRandom ==
    [regimes  |-> VolatilityRegime,
     normals  |-> {FromInt(-3), FromInt(3)},
     uniforms |-> {Zero, Dec(2, 100), Half}]

StochArgs ==
    {<<FromInt(15), Dec(5, 100), FromInt(2)>>,
     <<FromInt(75), Dec(1, 1000), FromInt(10)>>,
     <<FromInt(50), Dec(5, 10), Zero>>}

InitStoch ==
    /\ \E a \in StochArgs : Constructed(StochRandom, a[1], a[2], a[3])
    /\ is_running = FALSE /\ disabled = FALSE
    /\ in_progress = Idle

BoundedRunStep == Len(state.price_history) < MaxSteps /\ RunStep(StochRandom)

NextStoch == Direct(BoundedRunStep) \/ Direct(Reset(StochRandom))

SpecStoch == InitStoch /\ [][NextStoch]_vars

(***************************************************************************)
(* SpecParams: construction alone, over a grid of arguments below, inside  *)
(* and above each range.                                                   *)
(***************************************************************************)
MaxVolatilityArgs == {FromInt(-5), Zero, FromInt(15), FromInt(50), FromInt(75)}

MeanReversionArgs == {Dec(1, 1000), Dec(1, 100), Dec(5, 100), Dec(5, 10), Dec(75, 100)}

JumpFrequencyArgs == {FromInt(-1), Zero, FromInt(2), FromInt(5), FromInt(10)}

InitParams ==
    /\ \E mv \in MaxVolatilityArgs, mr \in MeanReversionArgs, jf \in JumpFrequencyArgs :
           Constructed(StochRandom, mv, mr, jf)
    /\ is_running = FALSE /\ disabled = FALSE
    /\ in_progress = Idle

NextParams ==
    \E mv \in MaxVolatilityArgs, mr \in MeanReversionArgs, jf \in JumpFrequencyArgs :
        Direct(Construct(StochRandom, mv, mr, jf))

SpecParams == InitParams /\ [][NextParams]_vars

(***************************************************************************)
(* SpecCalls: the whole runs of Spec, with generate_next_price() and       *)
(* get_current_state() called at any point of them.                        *)
(***************************************************************************)
NextCalls ==
    \/ Next
    \/ Direct(GenerateNextPriceCall(RunRandom, TIME_STEP))
    \/ Direct(GetCurrentState)

SpecCalls == Init /\ [][NextCalls]_vars

(***************************************************************************)
(* SpecClient: an engine without volatility and jumps in the hands of a    *)
(* caller that steps and resets it, previews prices, reads the state and   *)
(* writes to the state object it was handed, for the first MaxSteps        *)
(* entries of the history.  All draws are open.                            *)
(***************************************************************************)
ClientArgs ==
    {<<Zero, Dec(1, 100), Zero>>,
     <<Zero, Dec(5, 100), Zero>>,
     <<Zero, Dec(2, 10), Zero>>,
     <<Zero, Dec(5, 10), Zero>>}

\* The largest float below 100.0.
JustBelowMean ==
    [sign |-> 0, exp |-> -46, mant |-> BSub(BShl(BFromInt(100), 46), <<1>>)]

ClientPrices == {FromInt(1), FromInt(50), JustBelowMean, FromInt(300)}

InitClient ==
    /\ \E a \in ClientArgs : Constructed(StochRandom, a[1], a[2], a[3])
    /\ is_running = FALSE /\ disabled = FALSE
    /\ in_progress = Idle

NextClient ==
    \/ Direct(BoundedRunStep)
    \/ Direct(Reset(StochRandom))
    \/ Direct(GenerateNextPriceCall(StochRandom, TIME_STEP))
    \/ Direct(GetCurrentState)
    \/ \E price \in ClientPrices : Direct(CallerSetsPrice(price))
    \/ /\ Len(state.price_history) < MaxSteps
       /\ Direct(CallerAppendsPoint(PricePoint(Zero, FromInt(50), "LOW", FALSE)))

SpecClient == InitClient /\ [][NextClient]_vars

(***************************************************************************)
(* SpecUI: the Streamlit app from its first script run, for the first      *)
(* MaxSteps steps of a run, with slider positions at the default, at the   *)
(* lower and at the upper ends; generate_next_price() is called on the     *)
(* app's engine as well.  The regime draws are open; the normal draws are   *)
(* 3 and the uniform draws 0 and 0.5, so that jumps happen and fail to.    *)
(***************************************************************************)
UIRandom ==
    [regimes  |-> VolatilityRegime,
     normals  |-> {FromInt(3)},
     uniforms |-> {Zero, Half}]

UISliderValues ==
    {<<FromInt(15), Dec(5, 100), FromInt(2)>>,
     <<Zero, Dec(1, 100), Zero>>,
     <<FromInt(50), Dec(5, 10), FromInt(10)>>}

\* initialize_session_state()
InitUI ==
    /\ Constructed(UIRandom, FromInt(15), Dec(5, 100), FromInt(2))
    /\ is_running = FALSE
    /\ disabled = FALSE
    /\ in_progress = Idle

NextUI ==
    \/ \E v \in UISliderValues : UISliders(UIRandom, v[1], v[2], v[3])
    \/ \E start_clicked \in BOOLEAN :
           Len(state.price_history) < MaxSteps /\ UIRun(UIRandom, start_clicked)
    \/ UIPause
    \/ UIReset(UIRandom)
    \/ Direct(GenerateNextPriceCall(UIRandom, TIME_STEP))

SpecUI == InitUI /\ [][NextUI]_vars

(***************************************************************************)
(* SpecSession: whole runs of the Streamlit app with the sliders left at   *)
(* their defaults: Start, Pause and Reset are clicked at any moment and    *)
(* the script reruns for as long as the app asks for it.  Every regime     *)
(* draw gives MEDIUM, the normal draws are 3 and the uniform draws 0.5, so *)
(* that each press sequence has one outcome.                               *)
(***************************************************************************)
SessionRandom ==
    [regimes  |-> {"MEDIUM"},
     normals  |-> {FromInt(3)},
     uniforms |-> {Half}]

\* initialize_session_state()
InitSession ==
    /\ Constructed(SessionRandom, FromInt(15), Dec(5, 100), FromInt(2))
    /\ is_running = FALSE
    /\ disabled = FALSE
    /\ in_progress = Idle

NextSession ==
    \/ \E start_clicked \in BOOLEAN : UIRun(SessionRandom, start_clicked)
    \/ UIPause
    \/ UIReset(SessionRandom)

SpecSession == InitSession /\ [][NextSession]_vars

(***************************************************************************)
(* SpecThreads: the default engine used by two threads that nothing keeps  *)
(* apart: one executes run_step() statement by statement, the other calls  *)
(* reset() between any two of these statements; with no run_step() under   *)
(* way, run_step() is also executed as a whole.  Runs are followed for the *)
(* first MaxSteps points; every regime draw gives MEDIUM.                  *)
(***************************************************************************)
ThreadsRandom ==
    [regimes  |-> {"MEDIUM"},
     normals  |-> {FromInt(3)},
     uniforms |-> {Zero, Half}]

InitThreads ==
    /\ Constructed(ThreadsRandom, FromInt(15), Dec(5, 100), FromInt(2))
    /\ is_running = FALSE /\ disabled = FALSE
    /\ in_progress = Idle

NextThreads ==
    \/ /\ Len(state.price_history) < MaxSteps
       /\ RunStepStatement(ThreadsRandom)
       /\ UNCHANGED <<is_running, disabled>>
    \/ /\ Len(state.price_history) < MaxSteps
       /\ in_progress.pc = "idle"
       /\ Whole(RunStep(ThreadsRandom))
    \/ Whole(Reset(ThreadsRandom))

SpecThreads == InitThreads /\ [][NextThreads]_vars

(***************************************************************************)
(* SpecSwitch: runs of the default engine up to the first regime switch    *)
(* and MaxSwitchSteps - 151 steps beyond it.  The regime draws are open;   *)
(* the normal draws are a tenth of a deviation and the uniform draws       *)
(* 0.012, which lies between the jump probabilities of MEDIUM and HIGH, so *)
(* that the price of a step and its flag tell the regime they were         *)
(* computed in.                                                            *)
(***************************************************************************)
MaxSwitchSteps == 152

SwitchRandom ==
    [regimes  |-> VolatilityRegime,
     normals  |-> {Dec(1, 10)},
     uniforms |-> {Dec(12, 1000)}]

InitSwitch ==
    /\ Constructed(SwitchRandom, FromInt(15), Dec(5, 100), FromInt(2))
    /\ is_running = FALSE /\ disabled = FALSE
    /\ in_progress = Idle

NextSwitch ==
    \/ /\ Len(state.price_history) < MaxSwitchSteps
       /\ Direct(RunStep(SwitchRandom))
    \/ Direct(Reset(SwitchRandom))

SpecSwitch == InitSwitch /\ [][NextSwitch]_vars

(***************************************************************************)
(* SpecDt: the first MaxSteps steps of an engine with max_volatility 2 and *)
(* jump_frequency 5, with generate_next_price(dt) called at any point for  *)
(* a dt of LongStep seconds.  The regime draws are open, the normal draws  *)
(* are 3 and the uniform draws 0 and 0.5.                                  *)
(***************************************************************************)
DtRandom ==
    [regimes  |-> VolatilityRegime,
     normals  |-> {FromInt(3)},
     uniforms |-> {Zero, Half}]

InitDt ==
    /\ Constructed(DtRandom, FromInt(2), Dec(5, 100), FromInt(5))
    /\ is_running = FALSE /\ disabled = FALSE
    /\ in_progress = Idle

NextDt ==
    \/ /\ Len(state.price_history) < MaxSteps
       /\ Direct(RunStep(DtRandom))
    \/ Direct(Reset(DtRandom))
    \/ Direct(GenerateNextPriceCall(DtRandom, LongStep))

SpecDt == InitDt /\ [][NextDt]_vars

(***************************************************************************)
(* The claims.                                                             *)
(***************************************************************************)
Last(h) == h[Len(h)]

FAbs(a) == IF a = Zero THEN Zero ELSE [a EXCEPT !.sign = 0]

\* The last call was a run_step() that returned a PricePoint.
Stepped(call) == call.op = "run_step" /\ ~call.raised

\* C1: under clamped parameters, from a fresh or reset engine and whatever the
\* draws, the price of every PricePoint of price_history and current_price
\* lie in [1.0, 300.0].
C1_PriceWithinBounds ==
    LET InRange(p) == FGe(p, FromInt(1)) /\ FLe(p, FromInt(300)) IN
    /\ InRange(state.current_price)
    /\ \A i \in 1..Len(state.price_history) :
           InRange(state.price_history[i].price)

\* C1 witness: a run that was clamped at the upper bound and then at the lower.
C1_Witness ==
    \E i, j \in 1..Len(state.price_history) :
        /\ i < j
        /\ state.price_history[i].price = FromInt(300)
        /\ state.price_history[j].price = FromInt(1)
        /\ state.current_price = FromInt(1)

\* n * 0.2 as the tests compute it.
ClaimedTime(n) == FMul(FromInt(n), Dec(2, 10))

\* abs(a - b) < 0.001, the tolerance of the tests.
Near(a, b) == FLt(FAbs(FSub(a, b)), Dec(1, 1000))

\* C2 as stated: after N accepted run_step() calls on a fresh engine,
\* elapsed_time equals N * 0.2, price_history has N entries and its k-th entry
\* has timestamp k * 0.2.
C2_ExactTimes ==
    /\ state.elapsed_time = ClaimedTime(Len(state.price_history))
    /\ \A k \in 1..Len(state.price_history) :
           state.price_history[k].timestamp = ClaimedTime(k)

\* C2 amended: a fresh or reset engine has elapsed_time 0 and no entries; each
\* accepted run_step() appends exactly one entry and keeps the earlier ones;
\* with N entries, elapsed_time and the timestamp of the N-th entry are within
\* 0.001 of N * 0.2.
C2_TimesWithinTolerance ==
    /\ [](/\ last_call.op \in {"init", "reset"} =>
                state.elapsed_time = Zero /\ state.price_history = <<>>
          /\ Near(state.elapsed_time, ClaimedTime(Len(state.price_history)))
          /\ state.price_history # <<>> =>
                Near(Last(state.price_history).timestamp,
                     ClaimedTime(Len(state.price_history))))
    /\ [][Stepped(last_call') =>
            /\ Len(state'.price_history) = Len(state.price_history) + 1
            /\ SubSeq(state'.price_history, 1, Len(state.price_history))
                   = state.price_history]_vars

\* C2 witness: 900 steps from a fresh engine, where elapsed_time is not the
\* float 900 * 0.2.
C2_Witness ==
    /\ Stepped(last_call)
    /\ Len(state.price_history) = 900
    /\ state.elapsed_time # ClaimedTime(900)
    /\ Last(state.price_history).timestamp = state.elapsed_time

\* C3: once elapsed_time > 180, every run_step() raises and leaves the state
\* and the scheduler as they were, until reset().
C3_RaisesOnceComplete ==
    [][FGt(state.elapsed_time, FromInt(180)) /\ last_call'.op = "run_step" =>
          /\ last_call'.raised
          /\ state' = state
          /\ regime_scheduler' = regime_scheduler]_vars

\* C3 witness: a run_step() that found elapsed_time > 180 and raised.
C3_Witness ==
    /\ last_call.op = "run_step"
    /\ last_call.raised
    /\ FGt(last_call.at, FromInt(180))
    /\ FGt(state.elapsed_time, FromInt(180))

\* C4: from a fresh engine and without reset, price_history never holds more
\* than 900 PricePoints nor a timestamp greater than 180.0.
C4_AtMost900Points ==
    /\ Len(state.price_history) <= 900
    /\ \A k \in 1..Len(state.price_history) :
           FLe(state.price_history[k].timestamp, FromInt(180))

\* C5: reset() in any state leaves current_price 100.0, elapsed_time 0, an
\* empty price_history and a scheduler with last_switch_time 0; the
\* run_step() after it is accepted and returns a point with timestamp 0.2.
C5_ResetRestoresInitialState ==
    [][/\ last_call'.op = "reset" =>
            /\ state'.current_price = FromInt(100)
            /\ state'.elapsed_time = Zero
            /\ state'.price_history = <<>>
            /\ regime_scheduler'.last_switch_time = Zero
       /\ last_call.op = "reset" /\ last_call'.op = "run_step" =>
            /\ ~last_call'.raised
            /\ last_call'.value[1].timestamp = Dec(2, 10)]_vars

\* C5 witness: a reset() of a completed run that had switched regimes.
C5_Witness ==
    /\ last_call.op = "reset"
    /\ FGt(last_call.at, FromInt(180))
    /\ state.price_history = <<>>
    /\ regime_scheduler.last_switch_time = Zero

\* C6: the regimes of two consecutive PricePoints differ only if
\* elapsed_time - last_switch_time >= 30.0 held at the scheduler update of the
\* later point's step.
C6_RegimeChangesOnlyWhenDue ==
    [][/\ Stepped(last_call')
       /\ state.price_history # <<>>
       /\ FLt(FSub(state'.elapsed_time, regime_scheduler.last_switch_time),
              FromInt(30))
       => Last(state'.price_history).regime = Last(state.price_history).regime]_vars

\* C6 witness: two consecutive points with different regimes.
C6_Witness ==
    /\ Len(state.price_history) >= 2
    /\ Last(state.price_history).regime
           # state.price_history[Len(state.price_history) - 1].regime

\* C7: each constructor argument is clamped on its own: kept when in range,
\* the lower bound when below, the upper bound when above; clamping the
\* clamped values again changes nothing.
C7_ParametersClamped ==
    LET ClampTo(x, lo, hi) ==
            IF FLt(x, lo) THEN lo ELSE IF FGt(x, hi) THEN hi ELSE x
    IN  /\ parameters =
              [max_volatility |-> ClampTo(ctor_args[1], Zero, FromInt(50)),
               mean_reversion_strength |->
                   ClampTo(ctor_args[2], Dec(1, 100), Dec(5, 10)),
               jump_frequency |-> ClampTo(ctor_args[3], Zero, FromInt(5))]
        /\ SimulationParameters(parameters.max_volatility,
                                parameters.mean_reversion_strength,
                                parameters.jump_frequency) = parameters

\* C7 witness: one argument above its range, two below.
C7_Witness ==
    /\ ctor_args = <<FromInt(75), Dec(1, 1000), FromInt(-1)>>
    /\ parameters = [max_volatility |-> FromInt(50),
                     mean_reversion_strength |-> Dec(1, 100),
                     jump_frequency |-> Zero]

\* C8: with jump_frequency 0 no PricePoint has jump_occurred.
C8_NoJumpsAtZeroFrequency ==
    parameters.jump_frequency = Zero =>
        \A i \in 1..Len(state.price_history) :
            ~state.price_history[i].jump_occurred

\* C8 witness: two steps with jump_frequency 0 and a positive volatility.
C8_Witness ==
    /\ parameters.jump_frequency = Zero
    /\ FGt(parameters.max_volatility, Zero)
    /\ Len(state.price_history) >= 2

\* C9: every price generate_next_price() can return and every price of a
\* PricePoint is in [10.0, 300.0].
C9_PriceAtLeast10 ==
    LET InRange(p) == FGe(p, FromInt(10)) /\ FLe(p, FromInt(300)) IN
    /\ \A i \in 1..Len(state.price_history) :
           InRange(state.price_history[i].price)
    /\ \A p \in GenerateNextPrice(StochRandom, parameters, state, TIME_STEP) :
           InRange(p)

\* C10: right after construction the state shows current_price 100.0,
\* elapsed_time 0.0, regime MEDIUM and an empty price_history.
C10_InitialState ==
    last_call.op = "init" =>
        /\ state.current_price = FromInt(100)
        /\ state.elapsed_time = Zero
        /\ state.regime = "MEDIUM"
        /\ state.price_history = <<>>

\* C10 witness: a constructed engine whose scheduler drew another regime.
C10_Witness ==
    /\ last_call.op = "init"
    /\ regime_scheduler.current_regime = "HIGH"
    /\ state.regime = "MEDIUM"

\* C11: at construction and after reset() the state's regime is the regime the
\* scheduler drew.
C11_StateRegimeIsSchedulerRegime ==
    last_call.op \in {"init", "reset"} =>
        state.regime = regime_scheduler.current_regime

\* The life cycle of the engine.
NotStarted(st) == st.elapsed_time = Zero /\ st.price_history = <<>>

Running(st) == FGt(st.elapsed_time, Zero) /\ FLe(st.elapsed_time, FromInt(180))

Complete(st) == FGt(st.elapsed_time, FromInt(180))

\* C12: the engine is NOT_STARTED, RUNNING or COMPLETE; run_step() is accepted
\* exactly when the engine is not COMPLETE, an accepted call advances
\* elapsed_time, a rejected one leaves it, no run_step() leaves COMPLETE or
\* enters NOT_STARTED, and only reset() enters NOT_STARTED.
C12_Lifecycle ==
    /\ [](NotStarted(state) \/ Running(state) \/ Complete(state))
    /\ [][last_call'.op = "run_step" =>
              /\ last_call'.raised <=> Complete(state)
              /\ ~last_call'.raised =>
                     FGt(state'.elapsed_time, state.elapsed_time)
              /\ last_call'.raised => state'.elapsed_time = state.elapsed_time
              /\ Complete(state) => Complete(state')
              /\ ~NotStarted(state')]_vars
    /\ [][~NotStarted(state) /\ NotStarted(state') =>
              last_call'.op = "reset"]_vars

\* C12 witness: an accepted run_step() that took the engine from RUNNING to
\* COMPLETE.
C12_Witness ==
    /\ Stepped(last_call)
    /\ FGt(last_call.at, Zero)
    /\ FLe(last_call.at, FromInt(180))
    /\ Complete(state)

\* C13: generate_next_price() returns a value in every state and leaves the
\* state and the scheduler as they were.
C13_GenerateNextPriceKeepsState ==
    [][last_call'.op = "generate_next_price" =>
          /\ ~last_call'.raised
          /\ Len(last_call'.value) = 1
          /\ state' = state
          /\ regime_scheduler' = regime_scheduler]_vars

\* C13 witness: generate_next_price() on a COMPLETE engine.
C13_Witness ==
    /\ last_call.op = "generate_next_price"
    /\ ~last_call.raised
    /\ Complete(state)

\* C14: get_current_state() never fails and changes neither the state nor
\* the scheduler.
C14_GetCurrentStateKeepsState ==
    [][last_call'.op = "get_current_state" =>
          /\ ~last_call'.raised
          /\ state' = state
          /\ regime_scheduler' = regime_scheduler]_vars

\* C14 witness: get_current_state() called twice in a row in the middle of a
\* run whose scheduler has switched to a regime other than the state's.
C14_Witness ==
    /\ last_call.op = "get_current_state"
    /\ Len(state.price_history) = 450
    /\ regime_scheduler.last_switch_time # Zero

\* C15: an accepted run_step() appends the returned PricePoint and keeps the
\* earlier entries, its timestamp is greater than the last one's; reset()
\* empties the history; nothing else changes it.
C15_HistoryAppendOnly ==
    [][/\ Stepped(last_call') =>
            /\ state'.price_history =
                   Append(state.price_history, last_call'.value[1])
            /\ state.price_history # <<>> =>
                   FLt(Last(state.price_history).timestamp,
                       Last(state'.price_history).timestamp)
       /\ last_call'.op = "reset" => state'.price_history = <<>>
       /\ ~Stepped(last_call') /\ last_call'.op # "reset" =>
            state'.price_history = state.price_history]_vars

\* C15 witness: the 901st point appended to the 900 before it.
C15_Witness ==
    /\ Stepped(last_call)
    /\ Len(state.price_history) = 901
    /\ FLt(state.price_history[900].timestamp, state.price_history[901].timestamp)

\* The price generate_next_price() computes without shock and jump.
MeanReverted(price, strength) ==
    FAdd(price, FMul(FMul(FSub(FromInt(100), price), strength), Dec(2, 10)))

NoRandomness(params) ==
    params.max_volatility = Zero /\ params.jump_frequency = Zero

\* C16: with max_volatility 0 and jump_frequency 0 each run_step() changes the
\* price by (100 - current_price) * mean_reversion_strength * 0.2, whatever
\* the regime and the draws; a price of 100.0 stays 100.0.
C16_DeterministicStep ==
    [][Stepped(last_call') /\ NoRandomness(parameters) =>
          /\ state'.current_price =
                 MeanReverted(state.current_price,
                              parameters.mean_reversion_strength)
          /\ state.current_price = FromInt(100) =>
                 state'.current_price = FromInt(100)]_vars

\* C16 witness: two steps in regime HIGH from a price off the mean, the
\* second from the price the first left.
C16_Witness ==
    /\ Stepped(last_call)
    /\ NoRandomness(parameters)
    /\ Len(state.price_history) = 2
    /\ state.price_history[1].regime = "HIGH"
    /\ state.price_history[1].price # FromInt(100)
    /\ state.price_history[2].price =
           MeanReverted(state.price_history[1].price,
                        parameters.mean_reversion_strength)
    /\ state.price_history[2].price # state.price_history[1].price

\* The distance of a price from 100.0.
FromMean(price) == FAbs(FSub(price, FromInt(100)))

\* price lies between a and b (either order), bounds included.
Between(price, a, b) ==
    \/ FLe(a, price) /\ FLe(price, b)
    \/ FLe(b, price) /\ FLe(price, a)

\* C17 as stated: with max_volatility 0 and jump_frequency 0 the price
\* generate_next_price() returns lies between current_price and 100 and,
\* when current_price is not 100, is closer to 100 than current_price.
C17_StrictlyCloser ==
    last_call.op = "generate_next_price" /\ NoRandomness(parameters) =>
        /\ Between(last_call.value[1], state.current_price, FromInt(100))
        /\ state.current_price # FromInt(100) =>
               FLt(FromMean(last_call.value[1]), FromMean(state.current_price))

\* C17 amended: the returned price lies between current_price and 100, bounds
\* included (it never crosses 100 and never moves away from it), and is
\* closer to 100 than current_price when current_price is at least 0.001
\* away from 100.
C17_TowardMeanNoOvershoot ==
    last_call.op = "generate_next_price" /\ NoRandomness(parameters) =>
        /\ Between(last_call.value[1], state.current_price, FromInt(100))
        /\ ~Near(state.current_price, FromInt(100)) =>
               FLt(FromMean(last_call.value[1]), FromMean(state.current_price))

\* C17 witness: from current_price 50 the returned price is above 50 and
\* below 100.
C17_Witness ==
    /\ last_call.op = "generate_next_price"
    /\ NoRandomness(parameters)
    /\ state.current_price = FromInt(50)
    /\ FGt(last_call.value[1], FromInt(50))
    /\ FLt(last_call.value[1], FromInt(100))

\* C18: run_step, reset, generate_next_price and get_current_state leave the
\* parameters as they are, so the parameters are always the clamped
\* construction values; the app changes them only by putting a newly
\* constructed engine (no step taken yet) in place of the old one, and it is
\* not running afterwards.
C18_ParametersImmutable ==
    /\ [](parameters = SimulationParameters(ctor_args[1], ctor_args[2], ctor_args[3]))
    /\ [][last_call'.op \in {"run_step", "reset", "generate_next_price",
                             "get_current_state"} =>
              parameters' = parameters]_vars
    /\ [][parameters' # parameters =>
              /\ last_call'.op = "init"
              /\ state' = SimulationState(FromInt(100))
              /\ NotStarted(state')
              /\ ~is_running']_vars

\* C18 witness: the sliders were moved to their upper ends in the middle of a
\* run of the default engine; the engine in place is new, with jump_frequency
\* clamped to 5, and the app is not running.
C18_Witness ==
    /\ last_call.op = "init"
    /\ disabled
    /\ ~is_running
    /\ ctor_args = <<FromInt(50), Dec(5, 10), FromInt(10)>>
    /\ parameters.jump_frequency = FromInt(5)
    /\ NotStarted(state)

\* C19: what a caller does to the SimulationState it got from
\* get_current_state() does not change the engine's state.
C19_ReturnedStateIsReadOnly ==
    [][last_call'.op = "state_write" => state' = state]_vars

\* C20: the PricePoint an accepted run_step() returns is the last entry of
\* price_history, and the last entry of a non-empty history agrees with
\* elapsed_time, current_price and regime.
C20_ReturnedPointIsLastEntry ==
    /\ Stepped(last_call) => last_call.value[1] = Last(state.price_history)
    /\ state.price_history # <<>> =>
           /\ Last(state.price_history).timestamp = state.elapsed_time
           /\ Last(state.price_history).price = state.current_price
           /\ Last(state.price_history).regime = state.regime

\* C20 witness: a returned point with a jump flag, a price off the mean and a
\* regime other than the default.
C20_Witness ==
    /\ Stepped(last_call)
    /\ last_call.value[1].jump_occurred
    /\ last_call.value[1].price # FromInt(100)
    /\ last_call.value[1].regime = "HIGH"
    /\ Len(state.price_history) = 2


\* C21: on a step at which the advanced elapsed_time makes a switch due, the
\* scheduler is updated with the advanced time before the price is computed:
\* the newly selected regime is the state's regime and the recorded one, and
\* its multipliers give the step's price and the probability of its flag.
C21_NewRegimeSuppliesStep ==
    [][Stepped(last_call') /\ SwitchDue(regime_scheduler, state'.elapsed_time) =>
          /\ state'.elapsed_time = FAdd(state.elapsed_time, TIME_STEP)
          /\ regime_scheduler'.last_switch_time = state'.elapsed_time
          /\ state'.regime = regime_scheduler'.current_regime
          /\ Last(state'.price_history).regime = regime_scheduler'.current_regime
          /\ Last(state'.price_history).timestamp = state'.elapsed_time
          /\ Last(state'.price_history).price = state'.current_price
          /\ state'.current_price \in
                 GenerateNextPrice(SwitchRandom, parameters,
                                   [state EXCEPT !.regime =
                                        regime_scheduler'.current_regime],
                                   TIME_STEP)
          /\ Last(state'.price_history).jump_occurred \in
                 JumpDraws(SwitchRandom,
                           JumpProb(parameters,
                                    regime_scheduler'.current_regime))]_vars

\* C21 witness: step 151 switched from LOW to HIGH; its flag is set, which
\* the draw allows in HIGH only, and its price is not one the step would
\* have had in LOW.
C21_Witness ==
    /\ Stepped(last_call)
    /\ Len(state.price_history) = 151
    /\ state.price_history[150].regime = "LOW"
    /\ state.price_history[151].regime = "HIGH"
    /\ state.price_history[151].jump_occurred
    /\ ~state.price_history[150].jump_occurred
    /\ regime_scheduler.last_switch_time = state.price_history[151].timestamp
    /\ state.current_price \notin
           GenerateNextPrice(SwitchRandom, parameters,
                             [state EXCEPT
                                  !.current_price = state.price_history[150].price,
                                  !.regime = "LOW"],
                             TIME_STEP)


\* C22: the scheduler's last_switch_time is always a multiple of 30 seconds
\* (to within 0.001), and after every run_step()
\* 0 <= elapsed_time - last_switch_time < 30.
C22_SwitchTimesAligned ==
    /\ \E k \in 0..6 : Near(regime_scheduler.last_switch_time, FromInt(30 * k))
    /\ Stepped(last_call) =>
           /\ FGe(FSub(state.elapsed_time, regime_scheduler.last_switch_time), Zero)
           /\ FLt(FSub(state.elapsed_time, regime_scheduler.last_switch_time),
                  FromInt(30))

\* C23: after every run_step() the state's regime_switch_time is the
\* scheduler's last_switch_time.
C23_SwitchTimeMirrorsScheduler ==
    Stepped(last_call) =>
        state.regime_switch_time = regime_scheduler.last_switch_time

\* C24: the recorded points form regime periods of 30 seconds, that is of
\* 150 points, each: two consecutive points differ in regime only at a
\* period boundary, and 900 points hold 6 periods.
C24_SixPeriodsOf30Seconds ==
    \A i \in 1..(Len(state.price_history) - 1) :
        state.price_history[i].regime # state.price_history[i + 1].regime =>
            i % 150 = 0


\* The prices generate_next_price() can return from price `price` in regime
\* `regime` when _sample_jump decides against a jump, and when it decides
\* for one.
NoJumpPrices(rng, params, price, regime) ==
    {NextPrice(params, [current_price |-> price], TIME_STEP, shock, Zero) :
        shock \in SampleNormalNoise(rng, EffectiveVolatility(params, regime),
                                    TIME_STEP)}

JumpPrices(rng, params, price, regime) ==
    {NextPrice(params, [current_price |-> price], TIME_STEP, shock, jump[2]) :
        shock \in SampleNormalNoise(rng, EffectiveVolatility(params, regime),
                                    TIME_STEP),
        jump \in {j \in SampleJump(rng, params, regime,
                                   EffectiveVolatility(params, regime)) : j[1]}}

\* Whether the price `next` that followed `price` in regime `regime` received
\* a jump magnitude; neither holds when clamping hides it.
PriceJumped(rng, params, price, regime, next) ==
    /\ next \in JumpPrices(rng, params, price, regime)
    /\ next \notin NoJumpPrices(rng, params, price, regime)

PriceDidNotJump(rng, params, price, regime, next) ==
    /\ next \in NoJumpPrices(rng, params, price, regime)
    /\ next \notin JumpPrices(rng, params, price, regime)

C26_JumpProbabilityWithinUnit ==
    \A regime \in VolatilityRegime :
        /\ FGe(JumpProb(parameters, regime), Zero)
        /\ FLe(JumpProb(parameters, regime), FromInt(1))

\* C26 witness: jump_frequency 10 was clamped to 5, and in HIGH the jump
\* probability is the largest there is, between 0.03 and 0.04.
C26_Witness ==
    /\ ctor_args[3] = FromInt(10)
    /\ parameters.jump_frequency = FromInt(5)
    /\ FGt(JumpProb(parameters, "HIGH"), Dec(3, 100))
    /\ FLt(JumpProb(parameters, "HIGH"), Dec(4, 100))
    /\ \A regime \in VolatilityRegime :
           FLe(JumpProb(parameters, regime), JumpProb(parameters, "HIGH"))


\* C27: the price generate_next_price(dt) returns for dt = LongStep is one
\* whose jump was decided with the probability jump_frequency *
\* jump_probability_multiplier * (dt / 60).
C27_JumpProbabilityScalesWithDt ==
    LET JumpProbScaled(regime, dt) ==
            FMul(FMul(parameters.jump_frequency,
                      REGIME_CONFIGS[regime].jump_probability_multiplier),
                 FDiv(dt, FromInt(60)))
        ScaledJumpPrices(rng, st, dt) ==
            {NextPrice(parameters, st, dt, shock,
                       IF FLt(u, JumpProbScaled(st.regime, dt))
                       THEN jump ELSE Zero) :
                shock \in SampleNormalNoise(
                              rng, EffectiveVolatility(parameters, st.regime), dt),
                u \in rng.uniforms,
                jump \in RandomNormal(
                             rng, FMul(Half, EffectiveVolatility(parameters,
                                                                 st.regime)))}
    IN  last_call.op = "generate_next_price" =>
            last_call.value[1] \in ScaledJumpPrices(DtRandom, state, LongStep)

\* C28: under a caller that keeps calling run_step() and never resets, the
\* engine is eventually COMPLETE for good, after at most 901 accepted steps;
\* once it is COMPLETE every run_step() is rejected and changes nothing, and
\* every accepted step moves elapsed_time forward.
C28_EventuallyComplete ==
    /\ <>[]Complete(state)
    /\ [](Len(state.price_history) <= 901)
    /\ [][Complete(state) /\ last_call'.op = "run_step" =>
              last_call'.raised /\ state' = state]_vars
    /\ [][Stepped(last_call') =>
              FGt(state'.elapsed_time, state.elapsed_time)]_vars

\* C28 witness: a run_step() was rejected on a COMPLETE engine that holds
\* the 901 points of the accepted steps, the last of them beyond 180 s.
C28_Witness ==
    /\ last_call.op = "run_step"
    /\ last_call.raised
    /\ Complete(state)
    /\ Len(state.price_history) = 901
    /\ FGt(Last(state.price_history).timestamp, FromInt(180))
    /\ \A k \in 1..900 : FLe(state.price_history[k].timestamp, FromInt(180))

\* C29: the app's simulation loop never gets the already-complete error from
\* run_step(): it steps only with is_running set and elapsed_time < 180.0,
\* with elapsed_time >= 180.0 a script run leaves is_running unset and does
\* not step (a click on Start included), and whatever the clicks on Start,
\* Pause and Reset, the app's engine never holds more than 900 points.
C29_UINeverPast900Points ==
    /\ [](~(last_call.op = "run_step" /\ last_call.raised))
    /\ [][Stepped(last_call') =>
              is_running' /\ FLt(state.elapsed_time, FromInt(180))]_vars
    /\ [][FGe(state.elapsed_time, FromInt(180)) =>
              ~is_running' /\ ~Stepped(last_call')]_vars
    /\ [](Len(state.price_history) <= 900)

\* The parts of C29 about the loop's guard, without the count of points.
C29_UINeverRaises ==
    /\ [](~(last_call.op = "run_step" /\ last_call.raised))
    /\ [][Stepped(last_call') =>
              is_running' /\ FLt(state.elapsed_time, FromInt(180))]_vars
    /\ [][FGe(state.elapsed_time, FromInt(180)) =>
              ~is_running' /\ ~Stepped(last_call')]_vars
    /\ [](Len(state.price_history) <= 901)

\* elapsed_time is 0 exactly when price_history is empty, and the last point
\* of a non-empty price_history carries elapsed_time as its timestamp.
Serialized(st) ==
    /\ st.elapsed_time = Zero <=> st.price_history = <<>>
    /\ st.price_history # <<>> =>
           Last(st.price_history).timestamp = st.elapsed_time

\* C30: run_step() and reset() executed as a whole, with no run_step() under
\* way before or after, never lead from a state with elapsed_time 0 exactly
\* for an empty price_history (and the last timestamp equal to elapsed_time)
\* to a state without that; no such operation leads to elapsed_time 0 with a
\* non-empty price_history.  (That a reset() between the statements of a
\* run_step() does lead there is C30_Witness.)
C30_SerializedCallsKeepInvariant ==
    [][in_progress.pc = "idle" /\ in_progress'.pc = "idle" /\ Serialized(state)
           => Serialized(state')]_vars

\* C30 witness: a run_step() was under way past its time advance when reset()
\* was called, and has appended its point to the state that reset() made:
\* elapsed_time is 0, price_history holds one point with timestamp 0, and no
\* call is under way any more.
C30_Witness ==
    /\ in_progress.pc = "idle"
    /\ Stepped(last_call)
    /\ state.elapsed_time = Zero
    /\ Len(state.price_history) = 1
    /\ state.price_history[1].timestamp = Zero
    /\ FromInt(Len(state.price_history)) # FDiv(state.elapsed_time, TIME_STEP)

\* C31: after every accepted run_step() the state's regime is the scheduler's
\* current regime; during the first 149 steps after construction or reset()
\* the scheduler is the one made then (last_switch_time 0, its regime the
\* one drawn then and left alone by these steps), and the regime each of
\* these steps records is that regime, whatever regime the state held before
\* the step.
C31_RecordedRegimeIsSchedulerRegime ==
    /\ [](Stepped(last_call) =>
              state.regime = regime_scheduler.current_regime)
    /\ [](Len(state.price_history) <= 149 =>
              /\ regime_scheduler.last_switch_time = Zero
              /\ \A i \in 1..Len(state.price_history) :
                     state.price_history[i].regime
                         = regime_scheduler.current_regime)
    /\ [][Stepped(last_call') /\ Len(state'.price_history) <= 149 =>
              /\ regime_scheduler' = regime_scheduler
              /\ last_call'.value[1].regime = regime_scheduler.current_regime]_vars

\* C31 witness: the first step after construction or reset() with a scheduler
\* that drew HIGH found MEDIUM in the state and recorded HIGH, and the 149th
\* step still records the regime drawn then.
C31_Witness ==
    /\ Stepped(last_call)
    /\ Len(state.price_history) = 149
    /\ regime_scheduler = RegimeScheduler("HIGH")
    /\ SimulationState(LONG_TERM_MEAN).regime = "MEDIUM"
    /\ state.regime = "HIGH"
    /\ \A i \in 1..149 : state.price_history[i].regime = "HIGH"

\* C32: whatever the mix of run_step() and reset(), elapsed_time is at most
\* TOTAL_DURATION + TIME_STEP and price_history holds at most 901 points; the
\* guard of run_step() is strict: a call is accepted only at an elapsed_time
\* of at most 180, at 180.0 itself it is accepted and at 180.0 + TIME_STEP it
\* is rejected, so that only the last point of a run has a timestamp above
\* 180.
C32_AtMostOneStepPastDuration ==
    /\ FLe(state.elapsed_time, FAdd(TOTAL_DURATION, TIME_STEP))
    /\ Len(state.price_history) <= 901
    /\ Stepped(last_call) => FLe(last_call.at, TOTAL_DURATION)
    /\ ~Completed([state EXCEPT !.elapsed_time = TOTAL_DURATION])
    /\ Completed([state EXCEPT !.elapsed_time = FAdd(TOTAL_DURATION, TIME_STEP)])
    /\ \A k \in 1..(Len(state.price_history) - 1) :
           FLe(state.price_history[k].timestamp, TOTAL_DURATION)

\* C32 witness: the 901st run_step() of a run was accepted at an elapsed_time
\* of at most 180 and left elapsed_time above 180 and at most 180.2, recorded
\* as the timestamp of the 901st point.
C32_Witness ==
    /\ Stepped(last_call)
    /\ Len(state.price_history) = 901
    /\ FLe(last_call.at, TOTAL_DURATION)
    /\ FGt(state.elapsed_time, TOTAL_DURATION)
    /\ FLe(state.elapsed_time, FAdd(TOTAL_DURATION, TIME_STEP))
    /\ state.price_history[901].timestamp = state.elapsed_time

\* C33: reset() leaves a scheduler with last_switch_time 0 whatever the
\* elapsed_time and last_switch_time before it; from there no regime is
\* reselected during the first 149 steps, and the 150th step reselects, at
\* timestamp 30.0.
C33_ReselectionAtStep150AfterReset ==
    /\ last_call.op = "reset" =>
           /\ regime_scheduler.last_switch_time = Zero
           /\ state.elapsed_time = Zero
    /\ Len(state.price_history) <= 149 =>
           regime_scheduler.last_switch_time = Zero
    /\ Len(state.price_history) = 150 =>
           /\ regime_scheduler.last_switch_time
                  = state.price_history[150].timestamp
           /\ state.price_history[150].timestamp = FromInt(30)

\* The parts of C33 about the restarted clock, with the reselection where the
\* scheduler makes it: on the 151st step after construction or reset().
C33_ReselectionAtStep151AfterReset ==
    /\ last_call.op = "reset" =>
           /\ regime_scheduler.last_switch_time = Zero
           /\ state.elapsed_time = Zero
    /\ Len(state.price_history) <= 150 =>
           regime_scheduler.last_switch_time = Zero
    /\ Len(state.price_history) = 151 =>
           /\ regime_scheduler.last_switch_time
                  = state.price_history[151].timestamp
           /\ FGt(state.price_history[151].timestamp, FromInt(30))

=============================================================================
